---- MODULE Spec2Model ----
(***************************************************************************)
(* WebRTCClient (src/src/web-rtc-client.js): the registration lifecycle of *)
(* the facade's SIP user agent and the teardown of call sessions.          *)
(*                                                                         *)
(* The SIP.js user agent, its transport and its sessions are library       *)
(* objects.  The model keeps of them what the facade reads and what it     *)
(* asks of them; the events they emit are the environment's steps, and an  *)
(* event reaches a handler of the facade only while the listener the       *)
(* facade attached is still attached to the object that emits it.          *)
(***************************************************************************)
EXTENDS Integers, Sequences, FiniteSets, TLC

\* Ceiling of the retry loop.  The source sets 200 (line 21); the loop is
\* checked with a small ceiling, its code does not depend on the value.
MAX_REGISTER_TRY == 3

\* Factor of the linear backoff (line 945).
RETRY_DELAY_MS == 1500

\* Number of user agents one behaviour constructs.
MaxAgents == 4

\* Input device ids given to changeAudioInputDevice / changeVideoInputDevice;
\* "" is the falsy id.
DeviceIds == {"", "dev1"}

\* Callbacks given to reinit: the application's, or the default no-op.
Callbacks == {"app", "default"}

\* Call ids of the sessions of one behaviour (getSipSessionId): every map of
\* the facade is keyed by the call id, and a handler touches the entries of
\* its own session only.
SessionIds == {"a"}

\* Remote streams one video session collects.
MaxRemotes == 2

\* Sessions above which a merge is warned about.  The source sets 4 (line
\* 45); the comparison is checked with a small value.
MAX_MERGE_SESSIONS == 2

\* Delay of the timer transfer and atxfer set (lines 322, 338).
TRANSFER_DELAY_MS == 50

\* Call ids of the sessions of a conference.
ConferenceIds == {"a", "b"}

\* Continuations pending at once while sessions are merged.
MaxPending == 2
\* Pending timers of transfer.
MaxDelayed == 2

\* Where the facade runs: _isWeb(), a Firefox browser, and media.audio of the
\* configuration (this.hasAudio).  The audio context exists in a browser only.
Platforms ==
    {p \in [web : BOOLEAN, firefox : BOOLEAN, audio : BOOLEAN] : p.firefox => p.web}

\* The browser with audio the registration lifecycle is checked on; nothing
\* in that lifecycle reads the platform.
Browser == [web |-> TRUE, firefox |-> FALSE, audio |-> TRUE]

VARIABLES
    config,         \* this.config is set (the constructor's promise resolved)
    audio,          \* this.audio: "true" or the exact device id
    video,          \* this.video: "true" or the exact device id
    agents,         \* every UA constructed so far, in order of construction
    userAgent,      \* this.userAgent: index into agents, 0 when undefined
    ua,             \* what the facade reads of the agent it refers to
    registerTries,  \* this.registerTries
    registered,     \* this.registered
    registering,    \* this.registering
    timers,         \* pending setTimeout callbacks of _tryToRegister
    loopCb,         \* the callback given to the reinit that started the loop
    cbCalls,        \* the calls of a loop's callback since the loop started
    loopAttempts,   \* attempts (new agent + register) made by the current loop
    platform,       \* _isWeb(), Firefox, this.hasAudio
    videoEnabled,   \* this.videoEnabled
    sessions,       \* the SIP sessions the facade has set up, by call id
    videoSessions,  \* this.videoSessions
    audioElements,  \* keys of this.audioElements
    audioStreams,   \* this.audioStreams
    promises,       \* pending continuations: createOffer().then, once('addTrack')
    mergeDestination, \* this.mergeDestination: "null", or what made the node:
                    \* "merge" for merge(), "fresh" for removeFromMerge()
    audioSources,   \* the audio sources bindStreams made last for a session
    delayed,        \* pending setTimeout callbacks of transfer
    last            \* the handler that ran last: its session, the calls it
                    \* issued on it, whether it logged a warning, whether a
                    \* library call it made was refused, whether it threw

regVars == <<config, audio, video, agents, userAgent, ua, registerTries, registered,
             registering, timers, loopCb, cbCalls, loopAttempts>>

callVars == <<videoEnabled, sessions, videoSessions, audioElements, audioStreams,
              promises, mergeDestination, audioSources, delayed>>

vars == <<regVars, platform, callVars, last>>

\* The facade's fields as one record, so that a handler is the composition
\* of the methods it calls.
Facade ==
    [config |-> config, audio |-> audio, video |-> video, agents |-> agents,
     userAgent |-> userAgent, ua |-> ua, registerTries |-> registerTries,
     registered |-> registered, registering |-> registering,
     timers |-> timers, loopCb |-> loopCb, cbCalls |-> cbCalls,
     loopAttempts |-> loopAttempts]

Becomes(s, op, agent, threw) ==
    /\ config' = s.config
    /\ audio' = s.audio
    /\ video' = s.video
    /\ agents' = s.agents
    /\ userAgent' = s.userAgent
    /\ ua' = s.ua
    /\ registerTries' = s.registerTries
    /\ registered' = s.registered
    /\ registering' = s.registering
    /\ timers' = s.timers
    /\ loopCb' = s.loopCb
    /\ cbCalls' = s.cbCalls
    /\ loopAttempts' = s.loopAttempts
    /\ last' = [op |-> op, agent |-> agent, threw |-> threw, sess |-> "none",
                 calls |-> << >>, warned |-> FALSE, refused |-> FALSE,
                 list |-> << >>, outcome |-> "none"]
    /\ UNCHANGED <<platform, callVars>>

AgentIds == 1..Len(agents)

----------------------------------------------------------------------------
(* The library objects, as far as the facade drives them.                   *)

\* new UA(configuration): started, its transport connecting, the facade's
\* listeners attached to the agent (ual) and to its transport (tl).  gone
\* records what replaced the agent as this.userAgent.
NewUA ==
    [ual |-> TRUE, tl |-> TRUE, tr |-> "open", stopped |-> FALSE, gone |-> "no"]

\* Of the agent this.userAgent refers to: its registration (isRegistered(),
\* a register or unregister request under way) and the media constraints of
\* the configuration it was built from.  The facade holds no reference to
\* an agent it has replaced, and reads none of this of it.
NewUAState(s) ==
    [reg |-> "none", audio |-> s.audio, video |-> s.video]

NoUA == [reg |-> "none", audio |-> "none", video |-> "none"]

\* userAgent.removeAllListeners(): the agent's own listeners; the transport
\* is another emitter and keeps its listeners.
RemoveAllListeners(s, a) ==
    [s EXCEPT !.agents[a].ual = FALSE]

\* userAgent.transport.disconnect(): the socket closes, the transport's
\* 'disconnected' event follows.
TransportDisconnect(s, a) ==
    [s EXCEPT !.agents[a].tr = IF @ = "open" THEN "closing" ELSE @]

\* userAgent.stop(): a registered agent unregisters.
StopUA(s, a) ==
    [s EXCEPT !.agents[a].stopped = TRUE,
              !.ua.reg = IF a = s.userAgent /\ @ = "ok" THEN "unsent" ELSE @]

----------------------------------------------------------------------------
(* Methods of the facade.                                                   *)

\* createUserAgent() and the assignment of its result to this.userAgent.
InstallUserAgent(s) ==
    [s EXCEPT !.agents = Append(@, NewUA),
              !.userAgent = Len(s.agents) + 1,
              !.ua = NewUAState(s)]

\* register()
Register(s) ==
    IF s.userAgent = 0 \/ s.ua.reg = "ok"
    THEN s
    ELSE [s EXCEPT !.ua.reg = "sent"]

\* unregister()
Unregister(s) ==
    IF s.userAgent = 0
    THEN s
    ELSE [s EXCEPT !.ua.reg = "unsent", !.registered = FALSE]

\* clearTimeout(this.registerTimeout): registerTimeout is the timer set last.
ClearTimeout(tms) ==
    SelectSeq(tms, LAMBDA t : ~t.cur)

\* this.registerTimeout = setTimeout(..., delay)
SetTimeout(tms, delay, cb) ==
    Append([i \in 1..Len(tms) |-> [tms[i] EXCEPT !.cur = FALSE]],
           [delay |-> delay, cb |-> cb, cur |-> TRUE])

\* _tryToRegister with the ceiling tested by > instead of >=.
TryToRegisterOffByOne(s, cb) ==
    IF s.registered \/ s.registerTries > MAX_REGISTER_TRY
    THEN [s EXCEPT !.timers = ClearTimeout(@),
                   !.cbCalls = Append(@, [cb |-> cb,
                                          failure |-> s.registerTries > MAX_REGISTER_TRY]),
                   !.registering = FALSE]
    ELSE [s EXCEPT !.timers = SetTimeout(@, RETRY_DELAY_MS * s.registerTries, cb)]

\* _tryToRegister with the delay computed from the attempt to come.
TryToRegisterDelayAhead(s, cb) ==
    IF s.registered \/ s.registerTries >= MAX_REGISTER_TRY
    THEN [s EXCEPT !.timers = ClearTimeout(@),
                   !.cbCalls = Append(@, [cb |-> cb,
                                          failure |-> s.registerTries >= MAX_REGISTER_TRY]),
                   !.registering = FALSE]
    ELSE [s EXCEPT !.timers = SetTimeout(@, RETRY_DELAY_MS * (s.registerTries + 1), cb)]

\* _tryToRegister(cb), up to the setTimeout.
TryToRegister(s, cb) ==
    IF s.registered \/ s.registerTries >= MAX_REGISTER_TRY
    THEN [s EXCEPT !.timers = ClearTimeout(@),
                   !.cbCalls = Append(@, [cb |-> cb,
                                          failure |-> s.registerTries >= MAX_REGISTER_TRY]),
                   !.registering = FALSE]
    ELSE [s EXCEPT !.timers = SetTimeout(@, RETRY_DELAY_MS * s.registerTries, cb)]

\* reinit without its test of this.registering.
ReinitUnguarded(s, cb) ==
    TryToRegister([s EXCEPT !.registering = TRUE,
                            !.registerTries = 0,
                            !.registered = FALSE,
                            !.loopCb = cb,
                            !.cbCalls = << >>,
                            !.loopAttempts = 0], cb)

\* reinit(cb)
Reinit(s, cb) ==
    IF s.registering
    THEN s
    ELSE TryToRegister([s EXCEPT !.registering = TRUE,
                                 !.registerTries = 0,
                                 !.registered = FALSE,
                                 !.loopCb = cb,
                                 !.cbCalls = << >>,
                                 !.loopAttempts = 0], cb)

\* onDisconnected without its assignment to this.registered.
OnDisconnectedKeepsFlag(s) ==
    Reinit(s, "default")

\* onDisconnected of _bindRegistrationEvents
OnDisconnected(s) ==
    Reinit([s EXCEPT !.registered = FALSE], "default")

\* The callback _tryToRegister gives to setTimeout, once createUserAgent has
\* a configuration to build from.
RetryAttempt(s, cb) ==
    LET s1 == IF s.userAgent # 0
              THEN [RemoveAllListeners(s, s.userAgent)
                        EXCEPT !.agents[s.userAgent].gone = "retry"]
              ELSE s
        s2 == Register(InstallUserAgent(s1))
        s3 == [s2 EXCEPT !.registerTries = @ + 1, !.loopAttempts = @ + 1]
    IN  TryToRegister(s3, cb)

\* The old agent's teardown in changeAudioInputDevice and
\* changeVideoInputDevice (the two differ in the order of their last two
\* calls, which are synchronous).
TearDownForDevice(s) ==
    IF s.userAgent = 0
    THEN s
    ELSE [RemoveAllListeners(StopUA(TransportDisconnect(s, s.userAgent),
                                    s.userAgent), s.userAgent)
              EXCEPT !.agents[s.userAgent].gone = "device"]

DeviceConstraint(id) == IF id # "" THEN id ELSE "true"

----------------------------------------------------------------------------
(* Steps.                                                                   *)

InitOn(p) ==
    /\ config = FALSE
    /\ audio = "true"
    /\ video = "true"
    /\ agents = << >>
    /\ userAgent = 0
    /\ ua = NoUA
    /\ registerTries = 0
    /\ registered = FALSE
    /\ registering = FALSE
    /\ timers = << >>
    /\ loopCb = "none"
    /\ cbCalls = << >>
    /\ loopAttempts = 0
    /\ platform = p
    /\ videoEnabled = FALSE
    /\ sessions = [i \in {} |-> TRUE]
    /\ videoSessions = [i \in {} |-> TRUE]
    /\ audioElements = {}
    /\ audioStreams = [i \in {} |-> TRUE]
    /\ promises = {}
    /\ mergeDestination = "null"
    /\ audioSources = [i \in {} |-> TRUE]
    /\ delayed = << >>
    /\ last = [op |-> "constructor", agent |-> 0, threw |-> FALSE, sess |-> "none",
                calls |-> << >>, warned |-> FALSE, refused |-> FALSE,
                 list |-> << >>, outcome |-> "none"]

Init == InitOn(Browser)

\* The constructor's _buildConfig(...).then(...)
ConfigReady ==
    /\ ~config
    /\ Becomes(InstallUserAgent([Facade EXCEPT !.config = TRUE]),
               "configReady", 1, FALSE)

\* The application calls reinit(cb).
AppReinit(cb) ==
    Becomes(Reinit(Facade, cb), "reinit", 0, FALSE)

\* The application calls register().
AppRegister ==
    Becomes(Register(Facade), "register", userAgent, FALSE)

\* The application calls unregister().
AppUnregister ==
    Becomes(Unregister(Facade), "unregister", userAgent, FALSE)

\* A retry timer fires.  Without a configuration createUserAgent throws in
\* _createWebRTCConfiguration and the rest of the callback is skipped.
TimerFires(i) ==
    /\ i \in 1..Len(timers)
    /\ LET s == [Facade EXCEPT !.timers = [j \in 1..(Len(timers) - 1) |->
                                            IF j < i THEN timers[j] ELSE timers[j + 1]]]
       IN  IF ~config
           THEN Becomes(s, "retry", 0, TRUE)
           ELSE /\ Len(agents) < MaxAgents
                /\ Becomes(RetryAttempt(s, timers[i].cb), "retry", Len(agents) + 1, FALSE)

\* changeAudioInputDevice(id)
ChangeAudioInputDevice(id) ==
    LET s == [Facade EXCEPT !.audio = DeviceConstraint(id)]
    IN  IF ~config
        THEN Becomes(s, "changeAudioInputDevice", 0, TRUE)
        ELSE /\ Len(agents) < MaxAgents
             /\ Becomes(InstallUserAgent(TearDownForDevice(s)),
                        "changeAudioInputDevice", Len(agents) + 1, FALSE)

\* changeVideoInputDevice(id)
ChangeVideoInputDevice(id) ==
    LET s == [Facade EXCEPT !.video = DeviceConstraint(id)]
    IN  IF ~config
        THEN Becomes(s, "changeVideoInputDevice", 0, TRUE)
        ELSE /\ Len(agents) < MaxAgents
             /\ Becomes(InstallUserAgent(TearDownForDevice(s)),
                        "changeVideoInputDevice", Len(agents) + 1, FALSE)

\* The listener createUserAgent binds to 'registered' (_bindRegistrationEvents).
OnRegistered(s) ==
    [s EXCEPT !.registered = TRUE]

\* The agent emits 'registered': the answer to its register request.  The
\* agent's events are those of the current agent while its listeners are
\* attached: every replacement removes the listeners of the agent replaced.
EvRegistered ==
    /\ userAgent # 0 /\ agents[userAgent].ual
    /\ ua.reg = "sent" /\ agents[userAgent].tr = "open" /\ ~agents[userAgent].stopped
    /\ Becomes(OnRegistered([Facade EXCEPT !.ua.reg = "ok"]),
               "registered", userAgent, FALSE)

\* The agent emits 'registrationFailed'; the facade forwards it to its
\* subscribers and does nothing else.
EvRegistrationFailed ==
    /\ userAgent # 0 /\ agents[userAgent].ual
    /\ ua.reg = "sent"
    /\ Becomes([Facade EXCEPT !.ua.reg = "none"], "registrationFailed", userAgent, FALSE)

\* The agent emits 'unregistered': the answer to an unregister request.
EvUnregistered ==
    /\ userAgent # 0 /\ agents[userAgent].ual
    /\ ua.reg = "unsent"
    /\ Becomes(OnDisconnected([Facade EXCEPT !.ua.reg = "none"]),
               "unregistered", userAgent, FALSE)

\* The transport of agent a emits 'disconnected': the socket closed, on
\* disconnect() or by itself.
EvDisconnected(a) ==
    /\ agents[a].tr \in {"open", "closing"}
    /\ LET s == [Facade EXCEPT !.agents[a].tr = "closed",
                                !.ua.reg = IF a = userAgent THEN "none" ELSE @]
       IN  Becomes(IF agents[a].tl THEN OnDisconnected(s) ELSE s,
                   "disconnected", a, FALSE)

Next ==
    \/ ConfigReady
    \/ \E cb \in Callbacks : AppReinit(cb)
    \/ AppRegister
    \/ AppUnregister
    \/ \E i \in 1..Len(timers) : TimerFires(i)
    \/ \E id \in DeviceIds : ChangeAudioInputDevice(id)
    \/ \E id \in DeviceIds : ChangeVideoInputDevice(id)
    \/ EvRegistered
    \/ EvRegistrationFailed
    \/ EvUnregistered
    \/ \E a \in AgentIds : EvDisconnected(a)

Spec == Init /\ [][Next]_vars

\* Timers fire: a pending setTimeout callback is eventually run.
FairSpec == Spec /\ WF_vars(\E i \in 1..Len(timers) : TimerFires(i))

----------------------------------------------------------------------------
(* Call sessions.  A session is a SIP.js object: InviteClientContext for a  *)
(* call the facade placed (it has cancel and bye, no reject),               *)
(* InviteServerContext for a call it received (reject and bye, no cancel).  *)

\* What the facade reads of a session.  status is the name of the
\* SessionStatus; canceled is the session's _canceled; sdh says whether
\* sessionDescriptionHandler is set and pcClosed whether its peer connection
\* is closed; hasStop says whether the 'userMedia' listener of _setupSession
\* has defined session.stop; captureStopped, that the local audio tracks
\* were stopped; accepted, that _onAccepted has bound the 'addTrack'
\* listener; muted, that the local audio tracks are disabled.
NewSession(role, status) ==
    [role |-> role, status |-> status, isCanceled |-> FALSE, canceled |-> FALSE,
     hasAnswer |-> FALSE, sdh |-> FALSE, pcClosed |-> FALSE, hasStop |-> FALSE,
     captureStopped |-> FALSE, accepted |-> FALSE, localHold |-> FALSE,
     muted |-> FALSE, video |-> FALSE, cameraOn |-> TRUE, attended |-> FALSE,
     dropped |-> FALSE, remoteVideo |-> FALSE]

\* The functions a session object carries.
Methods(s) ==
    (IF s.role = "out" THEN {"cancel", "bye"} ELSE {"reject", "bye", "accept"})
        \cup {"hold", "unhold", "refer"}
        \cup (IF s.hasStop THEN {"stop"} ELSE {})

Put(f, k, v) == [x \in DOMAIN f \cup {k} |-> IF x = k THEN v ELSE f[x]]

Drop(f, k) == [x \in DOMAIN f \ {k} |-> f[x]]

\* The facade's call-side fields as one record.  exc: an exception is
\* propagating; log: the calls issued on the handler's session; warned:
\* console.warn was called; refused: a library call raised; list: the
\* sessions given to merge or unmerge; outcome: how the promise unmerge
\* returned settled, when the handler settles it.
Calls ==
    [videoEnabled |-> videoEnabled, sessions |-> sessions,
     videoSessions |-> videoSessions, audioElements |-> audioElements,
     audioStreams |-> audioStreams, promises |-> promises,
     mergeDestination |-> mergeDestination, audioSources |-> audioSources,
     delayed |-> delayed,
     exc |-> FALSE, log |-> << >>, warned |-> FALSE, refused |-> FALSE,
     list |-> << >>, outcome |-> "none"]

CallBecomes(c, op, i) ==
    /\ videoEnabled' = c.videoEnabled
    /\ sessions' = c.sessions
    /\ videoSessions' = c.videoSessions
    /\ audioElements' = c.audioElements
    /\ audioStreams' = c.audioStreams
    /\ promises' = c.promises
    /\ mergeDestination' = c.mergeDestination
    /\ audioSources' = c.audioSources
    /\ delayed' = c.delayed
    /\ last' = [op |-> op, agent |-> 0, threw |-> c.exc, sess |-> i,
                calls |-> c.log, warned |-> c.warned, refused |-> c.refused,
                list |-> c.list, outcome |-> c.outcome]
    /\ UNCHANGED <<regVars, platform>>

\* throw: the statements that follow, up to the enclosing catch, are skipped
\* (every statement after one that may throw tests exc).
Throw(c) == [c EXCEPT !.exc = TRUE]

\* A library call raises.
Refuse(c) == [c EXCEPT !.exc = TRUE, !.refused = TRUE]

\* changeVideo(enabled)
ChangeVideo(c, enabled) == [c EXCEPT !.videoEnabled = enabled]

\* _initializeVideoSession(sessionId)
InitializeVideoSession(c, i) ==
    IF i \in DOMAIN c.videoSessions
    THEN c
    ELSE [c EXCEPT !.videoSessions = Put(@, i, [local |-> FALSE, localVideo |-> FALSE,
                                                remotes |-> << >>, remotesVideo |-> << >>])]

\* _setupLocalMedia(session); localVideo says whether the local stream,
\* made of the tracks the session sends, has a video track.
SetupLocalMedia(c, i) ==
    LET c1 == IF platform.audio /\ platform.web
              THEN [c EXCEPT !.audioElements = @ \cup {i}]
              ELSE c
    IN  IF ~c1.videoEnabled
        THEN c1
        ELSE IF ~c1.sessions[i].sdh
             THEN Throw(c1)
             ELSE IF platform.web
                  THEN [InitializeVideoSession(c1, i)
                            EXCEPT !.videoSessions[i].local = TRUE,
                                   !.videoSessions[i].localVideo = c1.sessions[i].video]
                  ELSE c1

\* _setupRemoteMedia(session); a remote stream is told by its rank, and
\* remotesVideo says of each whether it has a video track: the stream is
\* made of the tracks the peer connection receives at that time.
SetupRemoteMedia(c, i) ==
    IF ~c.sessions[i].sdh
    THEN Throw(c)
    ELSE IF c.videoEnabled /\ platform.web
         THEN [InitializeVideoSession(c, i)
                   EXCEPT !.videoSessions[i].remotes = Append(@, Len(@) + 1),
                          !.videoSessions[i].remotesVideo =
                              Append(@, c.sessions[i].remoteVideo)]
         ELSE IF platform.audio /\ platform.web
              THEN IF i \in c.audioElements THEN c ELSE Throw(c)
              ELSE c

OnAcceptedNoLocal(c, i) ==
    LET c2 == SetupRemoteMedia(c, i)
    IN  IF c2.exc THEN c2 ELSE [c2 EXCEPT !.sessions[i].accepted = TRUE]

\* _onAccepted(session)
OnAccepted(c, i) ==
    LET c1 == SetupLocalMedia(c, i)
        c2 == IF c1.exc THEN c1 ELSE SetupRemoteMedia(c1, i)
    IN  IF c2.exc THEN c2 ELSE [c2 EXCEPT !.sessions[i].accepted = TRUE]

\* _cleanupMedia(session) with a session: cleanAudio reads the session's
\* audio element and calls pause() on it, a TypeError when there is none.
CleanupMedia(c, i) ==
    LET c1 == [c EXCEPT !.videoSessions = Drop(@, i)]
    IN  IF platform.audio /\ platform.web
        THEN IF i \in c1.audioElements
             THEN [c1 EXCEPT !.audioElements = @ \ {i}]
             ELSE Throw(c1)
        ELSE c1

\* _toggleAudio(session, muteAudio)
ToggleAudio(c, i, muteAudio) ==
    IF ~c.sessions[i].sdh
    THEN c
    ELSE [c EXCEPT !.sessions[i].muted = muteAudio]

ToggleVideoInverted(c, i, muteCamera) ==
    IF ~c.sessions[i].sdh
    THEN Throw(c)
    ELSE IF c.sessions[i].video
         THEN [c EXCEPT !.sessions[i].cameraOn = muteCamera]
         ELSE c

\* _toggleVideo(session, muteCamera): the peer connection is read off the
\* description handler without a test; the video tracks the session sends,
\* if it sends any, get enabled = !muteCamera.
ToggleVideo(c, i, muteCamera) ==
    IF ~c.sessions[i].sdh
    THEN Throw(c)
    ELSE IF c.sessions[i].video
         THEN [c EXCEPT !.sessions[i].cameraOn = ~muteCamera]
         ELSE c

\* session.stop(), the function the 'userMedia' listener defined.
StopCapture(c, i, fails) ==
    LET c1 == [c EXCEPT !.log = Append(@, "stop")]
    IN  IF "stop" \in fails
        THEN Refuse(c1)
        ELSE [c1 EXCEPT !.sessions[i].captureStopped = TRUE]

\* A pending continuation: of pc.createOffer() in bindStreams ("bind",
\* flag: the sources are not null) and in removeFromMerge ("unbind", flag:
\* shouldHold), or the once('addTrack') listener of addToMerge.  group is
\* the list of the unmerge whose Promise.all waits for it.
Promise(kind, i, flag) ==
    [kind |-> kind, sess |-> i, flag |-> flag, group |-> << >>]

\* The destinations an audio source feeds are told apart as "current", the
\* node this.mergeDestination refers to, and "other", any other destination
\* node.  When this.mergeDestination changes, what fed the node it referred
\* to feeds another node than the current one.
Stale(conn) ==
    IF "current" \in conn THEN (conn \ {"current"}) \cup {"other"} ELSE conn

StaleAll(srcs) ==
    [i \in DOMAIN srcs |-> [srcs[i] EXCEPT !.conn = Stale(@)]]

\* _addAudioStream(mediaStream) for the local and the remote stream of a
\* session: null without an audio context, else sources connected to the
\* merge destination when there is one.
AddAudioStream(c, i) ==
    [c EXCEPT !.audioSources =
        Put(@, i, [made |-> platform.web,
                   conn |-> IF platform.web /\ c.mergeDestination # "null"
                            THEN {"current"} ELSE {}])]

\* removeFromMerge(session, shouldHold), up to the promise it returns.  The
\* sources of a session bound without an audio context are null.
\* disconnect(destination) raises when the source does not feed the
\* destination; with no destination given it raises or disconnects the
\* source from everything, as the browser decides.  The sources are then
\* connected to a new destination, which this.mergeDestination is not set to.
RemoveFromMerge(c, i, shouldHold, fails) ==
    IF ~c.sessions[i].sdh \/ i \notin DOMAIN c.audioStreams
    THEN Throw(c)
    ELSE IF ~c.audioStreams[i].local
         THEN Throw(c)
         ELSE IF "disconnect" \in fails
         THEN Refuse(c)
         ELSE IF c.mergeDestination # "null" /\ "current" \notin c.audioSources[i].conn
         THEN Throw(c)
         ELSE LET c1 == [c EXCEPT !.audioSources[i].conn =
                                      IF c.mergeDestination = "null" THEN {}
                                      ELSE @ \ {"current"}]
                  c2 == IF platform.web
                        THEN [c1 EXCEPT !.audioSources[i].conn = @ \cup {"other"}]
                        ELSE c1
              IN  IF platform.web /\ c.sessions[i].pcClosed
                  THEN c2
                  ELSE [c2 EXCEPT !.audioStreams = Drop(@, i),
                                  !.promises = @ \cup {Promise("unbind", i, shouldHold)}]

\* The listener _setupSession binds to 'terminated'.
OnTerminated(c, i, fails) ==
    LET c1 == IF c.sessions[i].hasStop THEN StopCapture(c, i, fails) ELSE c
    IN  IF ~c1.exc /\ i \in DOMAIN c1.audioStreams
        THEN RemoveFromMerge(c1, i, TRUE, fails)
        ELSE c1

\* The session ends: its peer connection is closed, then 'terminated' is
\* emitted.
Terminated(c, i, fails) ==
    OnTerminated([c EXCEPT !.sessions[i].status = "TERMINATED",
                           !.sessions[i].pcClosed = c.sessions[i].sdh], i, fails)

\* session[m](): a TypeError when the session has no such function; else the
\* call is issued, and raises when the library refuses it (m in fails; an
\* accept of a session that is not waiting for its answer and a refer of a
\* session that is not confirmed are always refused).
\* reject and bye end the session and emit 'terminated' before they return.
SessionCall(c, i, m, fails) ==
    IF m \notin Methods(c.sessions[i])
    THEN Throw(c)
    ELSE IF m = "stop"
         THEN StopCapture(c, i, fails)
         ELSE LET c1 == [c EXCEPT !.log = Append(@, m)]
              IN  IF \/ m \in fails
                     \/ m = "accept" /\ c.sessions[i].status # "WAITING_FOR_ANSWER"
                     \/ m = "refer" /\ c.sessions[i].status # "CONFIRMED"
                  THEN Refuse(c1)
                  ELSE CASE m = "cancel" ->
                              [c1 EXCEPT !.sessions[i].isCanceled = TRUE,
                                         !.sessions[i].status =
                                             IF @ = "1XX_RECEIVED" THEN "CANCELED" ELSE @]
                         [] m \in {"reject", "bye"} ->
                              IF c1.sessions[i].status = "TERMINATED"
                              THEN c1
                              ELSE Terminated(c1, i, fails)
                         [] m = "accept" ->
                              [c1 EXCEPT !.sessions[i].status = "ANSWERED"]
                         [] m = "hold" ->
                              [c1 EXCEPT !.sessions[i].localHold = TRUE]
                         [] m = "unhold" ->
                              [c1 EXCEPT !.sessions[i].localHold = FALSE]
                         [] m = "refer" -> c1

\* hold(session)
Hold(c, i, fails) ==
    SessionCall(ToggleAudio(c, i, TRUE), i, "hold", fails)

\* unhold(session)
Unhold(c, i, fails) ==
    SessionCall(ToggleAudio(c, i, FALSE), i, "unhold", fails)

\* bindStreams of addToMerge, up to the promise it returns: the sources are
\* made, then the streams are taken off the peer connection, which refuses
\* when it is closed.
BindStreams(c, i) ==
    LET c1 == AddAudioStream(c, i)
    IN  IF c1.sessions[i].pcClosed
        THEN Throw(c1)
        ELSE [c1 EXCEPT !.promises = @ \cup {Promise("bind", i, platform.web)}]

\* _checkMaxMergeSessions(nbSessions)
CheckMaxMergeSessions(c, nbSessions) ==
    IF nbSessions < MAX_MERGE_SESSIONS
    THEN c
    ELSE [c EXCEPT !.warned = TRUE]

\* addToMerge(session)
AddToMerge(c, i, fails) ==
    LET c0 == CheckMaxMergeSessions(c, Cardinality(DOMAIN c.audioStreams) + 1)
    IN  IF ~c0.sessions[i].sdh
        THEN Throw(c0)
        ELSE IF c0.sessions[i].localHold /\ ~platform.firefox
             THEN LET c1 == Unhold(c0, i, fails)
                  IN  IF c1.exc
                      THEN c1
                      ELSE [c1 EXCEPT !.promises = @ \cup {Promise("awaitTrack", i, FALSE)}]
             ELSE BindStreams(c0, i)

\* sessions.map(this.addToMerge.bind(this)), from the k-th session on.
RECURSIVE AddEach(_, _, _, _)
AddEach(c, list, k, fails) ==
    IF k > Len(list) \/ c.exc
    THEN c
    ELSE AddEach(AddToMerge(c, list[k], fails), list, k + 1, fails)

\* merge(sessions)
Merge(c, list, fails) ==
    LET c1 == CheckMaxMergeSessions([c EXCEPT !.list = list], Len(list))
        c2 == IF platform.web
              THEN [c1 EXCEPT !.mergeDestination = "merge",
                              !.audioSources = StaleAll(@)]
              ELSE c1
    IN  AddEach(c2, list, 1, fails)

\* this.mergeDestination = null
ClearDestination(c) ==
    [c EXCEPT !.mergeDestination = "null", !.audioSources = StaleAll(@)]

\* sessions.map(... removeFromMerge(session, i < nbSessions - 1)), from the
\* k-th session on.
RECURSIVE RemoveEach(_, _, _, _)
RemoveEach(c, list, k, fails) ==
    IF k > Len(list) \/ c.exc
    THEN c
    ELSE RemoveEach(RemoveFromMerge(c, list[k], k < Len(list), fails),
                    list, k + 1, fails)

\* unmerge(sessions): Promise.all waits for the promises the removals
\* returned; a removal that returned null counts as settled, and with none
\* to wait for the destination is cleared at once.
Unmerge(c, list, fails) ==
    LET r == RemoveEach([c EXCEPT !.list = list], list, 1, fails)
        new == r.promises \ c.promises
    IN  IF r.exc
        THEN r
        ELSE IF new = {}
             THEN [ClearDestination(r) EXCEPT !.outcome = "resolved"]
             ELSE [r EXCEPT !.promises = (@ \ new) \cup
                                             {[q EXCEPT !.group = list] : q \in new}]

\* The continuation of a promise ended (r.exc: it rejected): the
\* Promise.all of the unmerge that waits for it rejects with it, and
\* resolves, clearing the destination, when it was the last one.
SettleUnmerge(r, p) ==
    IF p.group = << >>
    THEN r
    ELSE IF r.exc
         THEN [r EXCEPT !.promises = {[q EXCEPT !.group = IF @ = p.group THEN << >> ELSE @]
                                         : q \in @},
                        !.outcome = "rejected"]
         ELSE IF \E q \in r.promises : q.group = p.group
              THEN r
              ELSE [ClearDestination(r) EXCEPT !.outcome = "resolved"]

\* The body of hangup's try block.
HangupTry(c, i, fails) ==
    LET Cancel(x) ==
            IF "cancel" \in Methods(x.sessions[i]) /\ ~x.sessions[i].isCanceled
            THEN SessionCall(x, i, "cancel", fails)
            ELSE IF ~x.sessions[i].canceled
                 THEN SessionCall(x, i, "reject", fails)
                 ELSE x
        Reject(x) ==
            IF "reject" \in Methods(x.sessions[i])
            THEN SessionCall(x, i, "reject", fails)
            ELSE x
        Dispatch(x) ==
            LET s == x.sessions[i]
                isISC == "cancel" \in Methods(s)
            IN  IF s.status \in {"1XX_RECEIVED", "WAITING_FOR_ANSWER"}
                THEN Cancel(x)
                ELSE IF isISC /\ s.hasAnswer /\ "bye" \in Methods(s)
                     THEN SessionCall(x, i, "bye", fails)
                     ELSE IF isISC /\ ~s.hasAnswer
                          THEN Cancel(x)
                          ELSE LET y == IF s.hasStop
                                        THEN SessionCall(x, i, "stop", fails)
                                        ELSE x
                               IN  IF y.exc THEN y ELSE Reject(y)
        c1 == CleanupMedia(c, i)
        c2 == IF ~c1.exc /\ i \in DOMAIN c1.audioStreams
              THEN RemoveFromMerge(c1, i, TRUE, fails)
              ELSE c1
        c3 == IF c2.exc THEN c2 ELSE CleanupMedia(c2, i)
    IN  IF c3.exc THEN c3 ELSE Dispatch(c3)

HangupNoCatch(c, i, fails) ==
    HangupTry(c, i, fails)

\* hangup(session): the catch logs the error and the method returns null.
Hangup(c, i, fails) ==
    LET r == HangupTry(c, i, fails)
    IN  IF r.exc THEN [r EXCEPT !.exc = FALSE, !.warned = TRUE] ELSE r

\* What a call of the facade may find the library refusing.
Refusals == {{}} \cup {{m} : m \in {"cancel", "reject", "bye", "stop", "disconnect"}}

\* The construction of the facade, on any platform.
CallInit == \E p \in Platforms : InitOn(p)

\* call(number, enableVideo); without a user agent the invite is a TypeError.
\* The media constraints given to invite ask for video when enableVideo.
AppCall(i, enableVideo) ==
    /\ i \notin DOMAIN sessions
    /\ LET c == ChangeVideo(Calls, enableVideo)
       IN  IF userAgent = 0
           THEN CallBecomes(Throw(c), "call", "none")
           ELSE CallBecomes([c EXCEPT !.sessions =
                                 Put(@, i, [NewSession("out", "INVITE_SENT")
                                               EXCEPT !.video = enableVideo])],
                            "call", i)

\* The agent emits 'invite': _setupSession on the incoming session.
EvInvite(i) ==
    /\ i \notin DOMAIN sessions
    /\ userAgent # 0 /\ agents[userAgent].ual
    /\ CallBecomes([Calls EXCEPT !.sessions = Put(@, i, NewSession("in", "WAITING_FOR_ANSWER"))],
                   "invite", i)

\* answer(session, enableVideo); the media constraints given to accept ask
\* for video when enableVideo.
AppAnswer(i, enableVideo, fails) ==
    /\ i \in DOMAIN sessions
    /\ LET c == SessionCall(ChangeVideo(Calls, enableVideo), i, "accept", fails)
       IN  CallBecomes(IF c.exc THEN c ELSE [c EXCEPT !.sessions[i].video = enableVideo],
                       "answer", i)

\* The session creates its description handler; heard says whether the
\* 'userMedia' event reached the listener of _setupSession.
EvSessionDescriptionHandler(i, heard) ==
    /\ i \in DOMAIN sessions
    /\ ~sessions[i].sdh
    /\ sessions[i].status \in {"INVITE_SENT", "1XX_RECEIVED", "ANSWERED"}
    /\ CallBecomes([Calls EXCEPT !.sessions[i].sdh = TRUE,
                                 !.sessions[i].hasStop = heard],
                   "SessionDescriptionHandler-created", i)

\* A provisional response to the facade's INVITE; a cancel asked before it
\* is sent now.
EvProgress(i) ==
    /\ i \in DOMAIN sessions
    /\ sessions[i].status = "INVITE_SENT"
    /\ CallBecomes([Calls EXCEPT !.sessions[i].status =
                                     IF sessions[i].isCanceled THEN "CANCELED"
                                     ELSE "1XX_RECEIVED"],
                   "progress", i)

\* The session emits 'accepted'.
EvAccepted(i) ==
    /\ i \in DOMAIN sessions
    /\ sessions[i].sdh
    /\ \/ sessions[i].status \in {"INVITE_SENT", "1XX_RECEIVED"} /\ ~sessions[i].isCanceled
       \/ sessions[i].status = "ANSWERED"
    /\ CallBecomes(OnAccepted([Calls EXCEPT !.sessions[i].status = "CONFIRMED",
                                            !.sessions[i].hasAnswer = TRUE], i),
                   "accepted", i)

\* The caller cancels a call that is ringing.
EvCancel(i) ==
    /\ i \in DOMAIN sessions
    /\ sessions[i].role = "in" /\ sessions[i].status = "WAITING_FOR_ANSWER"
    /\ CallBecomes([Calls EXCEPT !.sessions[i].status = "CANCELED",
                                 !.sessions[i].canceled = TRUE],
                   "cancel", i)

\* The session emits 'terminated' on the far end's BYE or final response.
EvTerminated(i, fails) ==
    /\ i \in DOMAIN sessions
    /\ sessions[i].status # "TERMINATED"
    /\ CallBecomes(Terminated(Calls, i, fails), "terminated", i)

\* The description handler emits 'addTrack': the listener of _onAccepted,
\* then the one addToMerge left; a listener that throws ends the emit.
EvAddTrack(i) ==
    /\ i \in DOMAIN sessions
    /\ sessions[i].sdh /\ ~sessions[i].pcClosed
    /\ i \in DOMAIN videoSessions => Len(videoSessions[i].remotes) < MaxRemotes
    /\ LET waiting == Promise("awaitTrack", i, FALSE)
       IN  /\ sessions[i].accepted \/ waiting \in promises
           /\ LET c1 == IF sessions[i].accepted THEN SetupRemoteMedia(Calls, i) ELSE Calls
               IN  CallBecomes(IF ~c1.exc /\ waiting \in promises
                               THEN BindStreams([c1 EXCEPT !.promises = @ \ {waiting}], i)
                               ELSE c1,
                               "addTrack", i)

\* hangup(session)
AppHangup(i, fails) ==
    /\ i \in DOMAIN sessions
    /\ CallBecomes(Hangup(Calls, i, fails), "hangup", i)

\* addToMerge(session)
AppAddToMerge(i, fails) ==
    /\ i \in DOMAIN sessions
    /\ CallBecomes(AddToMerge(Calls, i, fails), "addToMerge", i)

\* pc.createOffer() settles.  Resolved, the continuation that addToMerge or
\* removeFromMerge chained runs; rejected, it does not.
OfferSettles(p, resolved, fails) ==
    /\ p \in promises /\ p.kind \in {"bind", "unbind"}
    /\ LET c == [Calls EXCEPT !.promises = @ \ {p}]
       IN  IF ~resolved
           THEN CallBecomes(SettleUnmerge(Throw(c), p), "offerRejected", p.sess)
           ELSE IF p.kind = "bind"
                THEN CallBecomes([c EXCEPT !.audioStreams =
                                      Put(@, p.sess, [local |-> p.flag, remote |-> p.flag])],
                                 "offerBound", p.sess)
                ELSE CallBecomes(SettleUnmerge(IF p.flag THEN Hold(c, p.sess, fails) ELSE c, p),
                                 "offerUnbound", p.sess)

\* merge(sessions)
AppMerge(list, fails) ==
    /\ \A k \in 1..Len(list) : list[k] \in DOMAIN sessions
    /\ CallBecomes(Merge(Calls, list, fails), "merge", "none")

\* removeFromMerge(session, shouldHold)
AppRemoveFromMerge(i, shouldHold, fails) ==
    /\ i \in DOMAIN sessions
    /\ CallBecomes(RemoveFromMerge(Calls, i, shouldHold, fails), "removeFromMerge", i)

\* unmerge(sessions)
AppUnmerge(list, fails) ==
    /\ \A k \in 1..Len(list) : list[k] \in DOMAIN sessions
    /\ CallBecomes(Unmerge(Calls, list, fails), "unmerge", "none")

CallNext ==
    \/ ConfigReady
    \/ \E i \in SessionIds, v \in BOOLEAN : AppCall(i, v)
    \/ \E i \in SessionIds : EvInvite(i)
    \/ \E i \in SessionIds, v \in BOOLEAN, f \in SUBSET {"accept"} : AppAnswer(i, v, f)
    \/ \E i \in SessionIds, h \in BOOLEAN : EvSessionDescriptionHandler(i, h)
    \/ \E i \in SessionIds : EvProgress(i)
    \/ \E i \in SessionIds : EvAccepted(i)
    \/ \E i \in SessionIds : EvCancel(i)
    \/ \E i \in SessionIds, f \in SUBSET {"stop", "disconnect"} : EvTerminated(i, f)
    \/ \E i \in SessionIds : EvAddTrack(i)
    \/ \E i \in SessionIds, f \in Refusals : AppHangup(i, f)
    \/ \E i \in SessionIds, f \in SUBSET {"unhold"} : AppAddToMerge(i, f)
    \/ \E p \in promises, r \in BOOLEAN, f \in SUBSET {"hold"} : OfferSettles(p, r, f)

CallSpec == CallInit /\ [][CallNext]_vars

\* mute(session)
AppMute(i) ==
    /\ i \in DOMAIN sessions
    /\ CallBecomes(ToggleAudio(Calls, i, TRUE), "mute", i)

\* unmute(session)
AppUnmute(i) ==
    /\ i \in DOMAIN sessions
    /\ CallBecomes(ToggleAudio(Calls, i, FALSE), "unmute", i)

\* toggleCameraOn(session)
AppToggleCameraOn(i) ==
    /\ i \in DOMAIN sessions
    /\ CallBecomes(ToggleVideo(Calls, i, FALSE), "toggleCameraOn", i)

\* toggleCameraOff(session)
AppToggleCameraOff(i) ==
    /\ i \in DOMAIN sessions
    /\ CallBecomes(ToggleVideo(Calls, i, TRUE), "toggleCameraOff", i)

TransferReferFirst(c, i, fails) ==
    LET c1 == SessionCall(c, i, "refer", fails)
        c2 == IF c1.exc THEN c1 ELSE Hold(c1, i, fails)
    IN  IF c2.exc
        THEN c2
        ELSE [c2 EXCEPT !.delayed = Append(@, [sess |-> i, ms |-> TRANSFER_DELAY_MS])]

\* transfer(session, target), up to its return: hold, then setTimeout.  A
\* hold that raises leaves no timer.
Transfer(c, i, fails) ==
    LET c1 == Hold(c, i, fails)
    IN  IF c1.exc
        THEN c1
        ELSE [c1 EXCEPT !.delayed = Append(@, [sess |-> i, ms |-> TRANSFER_DELAY_MS])]

\* The callback transfer gave to setTimeout: session.refer(target), then
\* hangup(session), which a refer that raises skips.  outcome says that
\* hangup ran.
TransferCallback(c, i, fails) ==
    LET c1 == SessionCall(c, i, "refer", fails)
    IN  IF c1.exc
        THEN c1
        ELSE [Hangup(c1, i, fails) EXCEPT !.outcome = "hangup"]

\* transfer(session, target)
AppTransfer(i, fails) ==
    /\ i \in DOMAIN sessions
    /\ Len(delayed) < MaxDelayed
    /\ CallBecomes(Transfer(Calls, i, fails), "transfer", i)

\* The oldest timer fires: all have the same delay.
TransferTimer(fails) ==
    /\ delayed # << >>
    /\ CallBecomes(TransferCallback([Calls EXCEPT !.delayed = Tail(@)],
                                    Head(delayed).sess, fails),
                   "transferTimer", Head(delayed).sess)

AtxferCancelSwapped(c, i, n, fails) ==
    LET c1 == Hangup(c, i, fails)
    IN  Unhold(c1, n, fails)

\* atxfer(session), up to its return: hold, then the object with init,
\* complete and cancel is returned; attended says that the application has
\* that object.
Atxfer(c, i, fails) ==
    LET c1 == Hold(c, i, fails)
    IN  IF c1.exc THEN c1 ELSE [c1 EXCEPT !.sessions[i].attended = TRUE]

\* complete(newSession) of atxfer(session): unhold, then setTimeout.
AtxferComplete(c, i, n, fails) ==
    LET c1 == Unhold(c, i, fails)
    IN  IF c1.exc
        THEN c1
        ELSE [c1 EXCEPT !.delayed = Append(@, [sess |-> i, via |-> n,
                                               ms |-> TRANSFER_DELAY_MS])]

\* The callback complete gave to setTimeout: newSession.refer(session),
\* then hangup(session), which a refer that raises skips.
AtxferCallback(c, i, n, fails) ==
    LET c1 == SessionCall(c, n, "refer", fails)
    IN  IF c1.exc
        THEN c1
        ELSE [Hangup(c1, i, fails) EXCEPT !.outcome = "hangup"]

\* cancel(newSession) of atxfer(session): hangup(newSession), then
\* unhold(session).
AtxferCancel(c, i, n, fails) ==
    LET c1 == Hangup(c, n, fails)
    IN  Unhold(c1, i, fails)

\* atxfer(session)
AppAtxfer(i, fails) ==
    /\ i \in DOMAIN sessions
    /\ CallBecomes(Atxfer(Calls, i, fails), "atxfer", i)

\* complete(newSession) on the object atxfer(session) returned
AppAtxferComplete(i, n, fails) ==
    /\ i \in DOMAIN sessions /\ sessions[i].attended
    /\ n \in DOMAIN sessions /\ n # i
    /\ Len(delayed) < MaxDelayed
    /\ CallBecomes(AtxferComplete(Calls, i, n, fails), "atxferComplete", i)

\* cancel(newSession) on the object atxfer(session) returned
AppAtxferCancel(i, n, fails) ==
    /\ i \in DOMAIN sessions /\ sessions[i].attended
    /\ n \in DOMAIN sessions /\ n # i
    /\ CallBecomes(AtxferCancel(Calls, i, n, fails), "atxferCancel", i)

\* The oldest timer of complete fires.
AtxferTimer(fails) ==
    /\ delayed # << >>
    /\ CallBecomes(AtxferCallback([Calls EXCEPT !.delayed = Tail(@)],
                                  Head(delayed).sess, Head(delayed).via, fails),
                   "atxferTimer", Head(delayed).sess)

\* A handler that changes both the registration side and the call side.
BothBecome(s, c, op, agent) ==
    /\ config' = s.config
    /\ audio' = s.audio
    /\ video' = s.video
    /\ agents' = s.agents
    /\ userAgent' = s.userAgent
    /\ ua' = s.ua
    /\ registerTries' = s.registerTries
    /\ registered' = s.registered
    /\ registering' = s.registering
    /\ timers' = s.timers
    /\ loopCb' = s.loopCb
    /\ cbCalls' = s.cbCalls
    /\ loopAttempts' = s.loopAttempts
    /\ videoEnabled' = c.videoEnabled
    /\ sessions' = c.sessions
    /\ videoSessions' = c.videoSessions
    /\ audioElements' = c.audioElements
    /\ audioStreams' = c.audioStreams
    /\ promises' = c.promises
    /\ mergeDestination' = c.mergeDestination
    /\ audioSources' = c.audioSources
    /\ delayed' = c.delayed
    /\ last' = [op |-> op, agent |-> agent, threw |-> c.exc, sess |-> "none",
                calls |-> c.log, warned |-> c.warned, refused |-> c.refused,
                list |-> c.list, outcome |-> c.outcome]
    /\ UNCHANGED platform

\* The keys of userAgent.sessions: the library drops a session that ended,
\* and close deletes the ones it went through (dropped).
Tracked(ss) ==
    {i \in DOMAIN ss : ss[i].status # "TERMINATED" /\ ~ss[i].dropped}

\* _cleanupMedia() without a session, then the loop of close over
\* this.audioElements and this.audioElements = {}.
CleanupAllMedia(c) ==
    [c EXCEPT !.audioElements = {}]

\* The loop of close over userAgent.sessions: hangup, then delete.
RECURSIVE HangupAll(_, _, _)
HangupAll(c, ids, fails) ==
    IF ids = {}
    THEN c
    ELSE LET i == CHOOSE x \in ids : TRUE
             c1 == Hangup(c, i, fails)
         IN  HangupAll([c1 EXCEPT !.sessions[i].dropped = TRUE], ids \ {i}, fails)

\* close(), the agent's side: transport.disconnect(), removeAllListeners(),
\* stop().
CloseAgent(s) ==
    StopUA(RemoveAllListeners(TransportDisconnect(s, s.userAgent), s.userAgent),
           s.userAgent)

\* close()
AppClose(fails) ==
    LET c == CleanupAllMedia(Calls)
    IN  IF userAgent = 0
        THEN CallBecomes(c, "close", "none")
        ELSE BothBecome(CloseAgent(Facade), HangupAll(c, Tracked(c.sessions), fails),
                        "close", userAgent)

\* The registration lifecycle, and close.
ShutdownNext ==
    \/ Next
    \/ AppClose({})

ShutdownSpec == Init /\ [][ShutdownNext]_vars

\* One call at any time of its life, and close.
CloseNext ==
    \/ ConfigReady
    \/ \E i \in SessionIds, v \in BOOLEAN : AppCall(i, v)
    \/ \E i \in SessionIds : EvInvite(i)
    \/ \E i \in SessionIds, v \in BOOLEAN, f \in SUBSET {"accept"} : AppAnswer(i, v, f)
    \/ \E i \in SessionIds, h \in BOOLEAN : EvSessionDescriptionHandler(i, h)
    \/ \E i \in SessionIds : EvProgress(i)
    \/ \E i \in SessionIds : EvAccepted(i)
    \/ \E i \in SessionIds : EvCancel(i)
    \/ \E i \in SessionIds, f \in SUBSET {"stop"} : EvTerminated(i, f)
    \/ \E i \in SessionIds : EvAddTrack(i)
    \/ \E f \in Refusals : AppClose(f)

CloseSpec == CallInit /\ [][CloseNext]_vars

SessionHasRemoteVideoEvery(c, id) ==
    IF id \notin DOMAIN c.videoSessions
    THEN FALSE
    ELSE \A k \in DOMAIN c.videoSessions[id].remotesVideo :
             c.videoSessions[id].remotesVideo[k]

\* sessionHasLocalVideo(sessionId)
SessionHasLocalVideo(c, id) ==
    IF id \notin DOMAIN c.videoSessions
    THEN FALSE
    ELSE IF ~c.videoSessions[id].local
         THEN FALSE
         ELSE c.videoSessions[id].localVideo

\* sessionHasRemoteVideo(sessionId)
SessionHasRemoteVideo(c, id) ==
    IF id \notin DOMAIN c.videoSessions
    THEN FALSE
    ELSE \E k \in DOMAIN c.videoSessions[id].remotesVideo :
             c.videoSessions[id].remotesVideo[k]

\* The far end starts or stops sending video: the peer connection gets or
\* loses a video receiver.
EvRemoteVideo(i) ==
    /\ i \in DOMAIN sessions
    /\ sessions[i].sdh /\ ~sessions[i].pcClosed
    /\ CallBecomes([Calls EXCEPT !.sessions[i].remoteVideo = ~@], "remoteVideo", i)

\* getRemoteVideoStreamsForSession(sessionId)
GetRemoteVideoStreamsForSession(c, id) ==
    IF id \notin DOMAIN c.videoSessions
    THEN << >>
    ELSE c.videoSessions[id].remotes

\* Two calls, with or without video, that are placed, accepted,
\* renegotiated and ended.
VideoNext ==
    \/ ConfigReady
    \/ \E i \in ConferenceIds, v \in BOOLEAN : AppCall(i, v)
    \/ \E i \in ConferenceIds : EvSessionDescriptionHandler(i, TRUE)
    \/ \E i \in ConferenceIds : EvAccepted(i)
    \/ \E i \in ConferenceIds : EvAddTrack(i)
    \/ \E i \in ConferenceIds : EvRemoteVideo(i)
    \/ \E i \in ConferenceIds : EvTerminated(i, {})
    \/ \E i \in ConferenceIds : AppHangup(i, {})

VideoSpec == CallInit /\ [][VideoNext]_vars

\* An attended transfer: two calls that are placed and accepted, and the
\* object atxfer returns for either.
AttendedNext ==
    \/ ConfigReady
    \/ \E i \in ConferenceIds : AppCall(i, FALSE)
    \/ \E i \in ConferenceIds : EvSessionDescriptionHandler(i, TRUE)
    \/ \E i \in ConferenceIds : EvAccepted(i)
    \/ \E i \in ConferenceIds : EvTerminated(i, {})
    \/ \E i \in ConferenceIds, f \in SUBSET {"hold"} : AppAtxfer(i, f)
    \/ \E i, n \in ConferenceIds, f \in SUBSET {"unhold"} : AppAtxferComplete(i, n, f)
    \/ \E i, n \in ConferenceIds, f \in SUBSET {"unhold"} : AppAtxferCancel(i, n, f)
    \/ \E f \in SUBSET {"refer"} : AtxferTimer(f)

AttendedSpec == CallInit /\ [][AttendedNext]_vars

\* One call and the controls the application has over it.
ControlNext ==
    \/ ConfigReady
    \/ \E i \in SessionIds, v \in BOOLEAN : AppCall(i, v)
    \/ \E i \in SessionIds : EvInvite(i)
    \/ \E i \in SessionIds, v \in BOOLEAN, f \in SUBSET {"accept"} : AppAnswer(i, v, f)
    \/ \E i \in SessionIds, h \in BOOLEAN : EvSessionDescriptionHandler(i, h)
    \/ \E i \in SessionIds : EvAccepted(i)
    \/ \E i \in SessionIds, f \in SUBSET {"stop"} : EvTerminated(i, f)
    \/ \E i \in SessionIds : AppMute(i)
    \/ \E i \in SessionIds : AppUnmute(i)
    \/ \E i \in SessionIds : AppToggleCameraOn(i)
    \/ \E i \in SessionIds : AppToggleCameraOff(i)
    \/ \E i \in SessionIds, f \in SUBSET {"hold"} : AppTransfer(i, f)
    \/ \E f \in Refusals \cup {{"refer"}} : TransferTimer(f)

ControlSpec == CallInit /\ [][ControlNext]_vars

\* The lists of sessions given to merge and unmerge: no session twice.
MergeLists(ids) ==
    {l \in UNION {[1..n -> ids] : n \in 1..Cardinality(ids)} :
        \A j, k \in 1..Len(l) : j # k => l[j] # l[k]}

\* The facade in a browser or not, with audio.
MergeInit == \E p \in Platforms : p.audio /\ InitOn(p)

\* A call of the application that leaves no more than MaxPending
\* continuations pending.
Bounded(c) == Cardinality(c.promises) <= MaxPending

\* One call that is placed, accepted, merged and taken out of the merge at
\* any time of its life, on any platform.
MergeNext ==
    \/ ConfigReady
    \/ \E i \in SessionIds : AppCall(i, FALSE)
    \/ \E i \in SessionIds : EvSessionDescriptionHandler(i, TRUE)
    \/ \E i \in SessionIds : EvAccepted(i)
    \/ \E i \in SessionIds : EvTerminated(i, {})
    \/ \E i \in SessionIds : EvAddTrack(i)
    \/ \E l \in MergeLists(SessionIds), f \in SUBSET {"unhold"} :
            AppMerge(l, f) /\ Bounded(Merge(Calls, l, f))
    \/ \E i \in SessionIds, f \in SUBSET {"unhold"} :
            AppAddToMerge(i, f) /\ Bounded(AddToMerge(Calls, i, f))
    \/ \E i \in SessionIds, h \in BOOLEAN, f \in SUBSET {"disconnect"} :
            AppRemoveFromMerge(i, h, f) /\ Bounded(RemoveFromMerge(Calls, i, h, f))
    \/ \E l \in MergeLists(SessionIds), f \in SUBSET {"disconnect"} :
            AppUnmerge(l, f) /\ Bounded(Unmerge(Calls, l, f))
    \/ \E p \in promises, r \in BOOLEAN, f \in SUBSET {"hold"} : OfferSettles(p, r, f)

MergeSpec == MergeInit /\ [][MergeNext]_vars

\* The sessions of the list are established calls.
Established(l) ==
    \A k \in 1..Len(l) :
        l[k] \in DOMAIN sessions /\ sessions[l[k]].status = "CONFIRMED"

\* A conference in a browser: calls that are placed and accepted, merged
\* and unmerged once established.
ConferenceNext ==
    \/ ConfigReady
    \/ \E i \in ConferenceIds : AppCall(i, FALSE)
    \/ \E i \in ConferenceIds : EvSessionDescriptionHandler(i, TRUE)
    \/ \E i \in ConferenceIds : EvAccepted(i)
    \/ \E l \in MergeLists(ConferenceIds) :
            Established(l) /\ AppMerge(l, {}) /\ Bounded(Merge(Calls, l, {}))
    \/ \E i \in ConferenceIds :
            Established(<<i>>) /\ AppAddToMerge(i, {}) /\ Bounded(AddToMerge(Calls, i, {}))
    \/ \E i \in ConferenceIds, h \in BOOLEAN :
            Established(<<i>>) /\ AppRemoveFromMerge(i, h, {})
                /\ Bounded(RemoveFromMerge(Calls, i, h, {}))
    \/ \E l \in MergeLists(ConferenceIds) :
            Established(l) /\ AppUnmerge(l, {}) /\ Bounded(Unmerge(Calls, l, {}))
    \/ \E p \in promises, r \in BOOLEAN, f \in SUBSET {"hold"} : OfferSettles(p, r, f)

ConferenceSpec == Init /\ [][ConferenceNext]_vars

----------------------------------------------------------------------------
(* The registration retry loop.                                             *)

DisconnectionEvents == {"disconnected", "unregistered"}

\* C1: at most one retry timer is pending in every reachable state, and a
\* reinit() made while registering is true (by the application, or by the
\* handler of 'disconnected' / 'unregistered') changes neither registerTries
\* nor the pending timers; the application's call leaves registered alone
\* too.
C1_SingleRetryChain ==
    /\ [](Len(timers) <= 1)
    /\ [][(registering /\ last'.op = "reinit")
              => /\ registerTries' = registerTries
                 /\ registered' = registered
                 /\ timers' = timers]_vars
    /\ [][(registering /\ last'.op \in DisconnectionEvents)
              => /\ registerTries' = registerTries
                 /\ timers' = timers]_vars

\* C1's case: reinit() was called in the middle of a loop (an attempt made,
\* the next one pending).
C1_Witness ==
    /\ last.op = "reinit"
    /\ registering /\ registerTries >= 1 /\ Len(timers) = 1

\* C2: once 'registered' has set registered = true during a retry loop, a
\* retry timer that fires makes no attempt (constructs no agent, issues no
\* register request) and the loop's callback is called with failure = false.
C2_LoopStopsOnceRegistered ==
    [][(registered /\ registering /\ last'.op = "retry")
          => /\ agents' = agents
             /\ userAgent' = userAgent
             /\ ua' = ua
             /\ cbCalls' = <<[cb |-> loopCb, failure |-> FALSE]>>]_vars

\* C3: when registerTries reaches the ceiling the loop has stopped (no timer
\* pending, registering false) and the callback given to the reinit() that
\* started the loop has been called exactly once, with failure = true; the
\* step that reaches the ceiling is a timer callback that does not throw.
C3_ExhaustionReportedOnce ==
    /\ [](registerTries >= MAX_REGISTER_TRY
            => /\ ~registering
               /\ timers = << >>
               /\ cbCalls = <<[cb |-> loopCb, failure |-> TRUE]>>)
    /\ [][(registerTries < MAX_REGISTER_TRY /\ registerTries' >= MAX_REGISTER_TRY)
              => (last'.op = "retry" /\ ~last'.threw)]_vars

\* C3's case: the application's loop ran out of tries without registering.
C3_Witness ==
    /\ registerTries = MAX_REGISTER_TRY
    /\ ~registered
    /\ loopCb = "app"
    /\ last.op = "retry"

\* C4: a pending retry timer was set with a delay of 1500 ms times the
\* number of attempts the loop has made, that number is registerTries and is
\* below the ceiling (so the first timer has delay 0), and an attempt adds
\* exactly 1 to registerTries.
C4_LinearBackoff ==
    /\ [](\A i \in 1..Len(timers) :
              /\ timers[i].delay = RETRY_DELAY_MS * loopAttempts
              /\ loopAttempts = registerTries
              /\ loopAttempts < MAX_REGISTER_TRY)
    /\ [][(last'.op = "retry" /\ ~last'.threw)
              => (registerTries' = registerTries + 1 /\ loopAttempts' = loopAttempts + 1)]_vars
    /\ [][(~registering /\ registering') => (timers' = <<[delay |-> 0, cb |-> loopCb', cur |-> TRUE]>>)]_vars

\* C4's case: the timer of the third attempt is pending.
C4_Witness ==
    /\ Len(timers) = 1
    /\ loopAttempts = 2
    /\ timers[1].delay = 3000

\* C5: the handler of a 'disconnected' or 'unregistered' event leaves
\* registered = false, and when no loop was running it starts one:
\* registering = true, registerTries = 0 and the first timer set.
C5_DisconnectionRestartsLoop ==
    [][(last'.op \in DisconnectionEvents)
          => /\ ~registered'
             /\ (~registering
                    => /\ registering'
                       /\ registerTries' = 0
                       /\ timers' = <<[delay |-> 0, cb |-> "default", cur |-> TRUE]>>)]_vars

\* C5's case: the 'unregistered' event that answers the application's own
\* unregister() has started a loop.
C5_Witness ==
    /\ last.op = "unregistered"
    /\ registering /\ registerTries = 0 /\ Len(timers) = 1
    /\ loopCb = "default"

\* The calls the application makes.
ApplicationCalls ==
    {"reinit", "register", "unregister",
     "changeAudioInputDevice", "changeVideoInputDevice"}

\* C6: after a 'registrationFailed' event of the current agent below the
\* try ceiling, timers firing fairly, a further attempt is eventually made
\* without the application doing anything: the next thing to happen among
\* an attempt and a call of the application is an attempt (or the model has
\* constructed all the agents it may).
C6_RegistrationFailureRecovered ==
    [](((last.op = "registrationFailed") /\ registerTries < MAX_REGISTER_TRY)
          => <>(\/ last.op = "retry" /\ ~last.threw
                \/ last.op \in ApplicationCalls
                \/ Len(agents) = MaxAgents))

\* C7: every agent that is not the facade's current agent has been torn
\* down: its transport asked to disconnect and the agent stopped.
C7_OneLiveAgent ==
    \A a \in AgentIds :
        a # userAgent => (agents[a].tr # "open" /\ agents[a].stopped)

\* C8: after a device change the replaced agent has its transport
\* disconnecting, is stopped and has no listener left, the current agent is
\* built from the facade's constraints, and no event of the replaced agent
\* changes the facade's registration state.
C8_DeviceChangeSilencesOldAgent ==
    /\ [](\A a \in AgentIds :
              agents[a].gone = "device"
                  => (agents[a].tr # "open" /\ agents[a].stopped /\ ~agents[a].ual))
    /\ [][(last'.op \in {"changeAudioInputDevice", "changeVideoInputDevice"} /\ ~last'.threw)
              => /\ userAgent' = Len(agents) + 1
                 /\ ua'.audio = audio' /\ ua'.video = video']_vars
    /\ [][(last'.op \in DisconnectionEvents /\ agents[last'.agent].gone = "device")
              => UNCHANGED <<registered, registering, registerTries, timers, userAgent>>]_vars

----------------------------------------------------------------------------
(* Hangup.                                                                  *)

SignalingCalls == {"cancel", "reject", "bye"}

\* C9: hangup(session) returns normally to its caller whatever the session's
\* status, role and functions, merge membership and platform, and whichever
\* step of the teardown raises: no run of hangup ends with an exception
\* propagating.
C9_HangupNeverThrows ==
    [][(last'.op = "hangup") => ~last'.threw]_vars

\* A hangup in which a call issued on the session raised, and which logged
\* the error and returned.
C9_Witness ==
    /\ last.op = "hangup"
    /\ last.warned
    /\ last.calls # << >>
    /\ ~last.threw

\* C10: a hangup of a session whose status is CANCELED or TERMINATED issues
\* no cancel, no reject and no bye on that session, and does not raise.
C10_EndedSessionNotSignaled ==
    [][(last'.op = "hangup" /\ sessions[last'.sess].status \in {"CANCELED", "TERMINATED"})
          => /\ ~last'.threw
             /\ \A k \in 1..Len(last'.calls) : last'.calls[k] \notin SignalingCalls]_vars

\* The calls of a handler that end or refuse the dialog, in order.
Signaling(calls) == SelectSeq(calls, LAMBDA m : m \in SignalingCalls)

\* What hangup's cancel closure issues: cancel on a session that has it,
\* reject on one that has not.
CancelActions == {"cancel", "reject"}

\* C11: a hangup issues exactly one termination action on its session, on
\* every platform: a cancel when the session is in an early or ringing phase
\* (1XX_RECEIVED, WAITING_FOR_ANSWER) or is not answered yet (INVITE_SENT), a
\* bye when it has been answered (CONFIRMED).  Teardown steps the library
\* refuses before the action are left aside.
C11_OneTerminationAction ==
    [][(last'.op = "hangup" /\ (last'.refused => Signaling(last'.calls) # << >>))
          => LET s == sessions[last'.sess]
                 issued == Signaling(last'.calls)
             IN  /\ (s.status \in {"1XX_RECEIVED", "WAITING_FOR_ANSWER", "INVITE_SENT"})
                        => (Len(issued) = 1 /\ issued[1] \in CancelActions)
                 /\ (s.status = "CONFIRMED")
                        => (issued = <<"bye">>)]_vars

\* C12: when hangup is called on a session placed by call() that was
\* accepted (and has its stop function), and the library refuses none of
\* hangup's calls, then after the hangup the local capture has been stopped
\* and the session has no entry in videoSessions, audioElements and
\* audioStreams.
C12_CallAcceptedHangup ==
    [][(/\ last'.op = "hangup"
        /\ ~last'.refused
        /\ sessions[last'.sess].role = "out"
        /\ sessions[last'.sess].status = "CONFIRMED"
        /\ sessions[last'.sess].accepted
        /\ sessions[last'.sess].hasStop)
          => /\ sessions'[last'.sess].captureStopped
             /\ last'.sess \notin DOMAIN videoSessions'
             /\ last'.sess \notin audioElements'
             /\ last'.sess \notin DOMAIN audioStreams']_vars

\* C13: _cleanupMedia(session) removes the session's entries, and applied
\* again to the same session (or applied to a session that has none) it
\* changes nothing and raises no error.
C13_CleanupIdempotent ==
    \A i \in DOMAIN sessions :
        LET once == CleanupMedia(Calls, i)
            twice == CleanupMedia([once EXCEPT !.exc = FALSE], i)
        IN  /\ i \notin DOMAIN once.videoSessions
            /\ i \notin once.audioElements
            /\ ~twice.exc
            /\ twice = [once EXCEPT !.exc = FALSE]

----------------------------------------------------------------------------
(* Merging sessions.                                                        *)

\* C14: after removeFromMerge(s) on a session that addToMerge has put in
\* the merge set, whatever the state of its peer connection and whether or
\* not there is an audio context, s has no entry in audioStreams and its
\* audio sources feed no destination (a disconnect the browser refuses
\* left aside).
C14_RemovedFromMerge ==
    [][(/\ last'.op = "removeFromMerge"
        /\ last'.sess \in DOMAIN audioStreams
        /\ ~last'.refused)
          => /\ last'.sess \notin DOMAIN audioStreams'
             /\ audioSources'[last'.sess].conn = {}]_vars

\* The sessions of a list.
Members(l) == {l[k] : k \in 1..Len(l)}

\* C15: an unmerge(sessions) called right after merge(sessions) on the same
\* sessions, before the promises of the merge have settled, completes
\* without error, and leaves no continuation of the merge pending that
\* would put one of the sessions in audioStreams after the unmerge.
C15_MergeThenUnmerge ==
    [][(/\ last.op = "merge" /\ ~last.threw
        /\ last'.op = "unmerge"
        /\ Members(last'.list) = Members(last.list))
          => /\ ~last'.threw
             /\ \A q \in promises' : q.kind = "bind" => q.sess \notin Members(last'.list)]_vars

\* C16: a removeFromMerge(s) that runs to its end leaves this.mergeDestination
\* referring to the destination it created, fed by the sources of every
\* session still in audioStreams and not by the sources of s.
C16_DestinationRebuilt ==
    [][(/\ last'.op = "removeFromMerge" /\ ~last'.threw
        /\ last'.sess \in DOMAIN audioStreams
        /\ last'.sess \notin DOMAIN audioStreams')
          => /\ mergeDestination' = "fresh"
             /\ \A j \in DOMAIN audioStreams' : "current" \in audioSources'[j].conn
             /\ "current" \notin audioSources'[last'.sess].conn]_vars

\* C17: merge and addToMerge record a warning exactly when the sessions
\* merged at once would be more than MAX_MERGE_SESSIONS (the sessions of
\* the list, or those already in audioStreams and the one added), not when
\* they are as many or fewer, and the count never makes them fail.
C17_MergeLimitAdvisory ==
    /\ [][(last'.op = "merge")
             => /\ last'.warned <=>
                      (Cardinality(DOMAIN audioStreams \cup Members(last'.list))
                          > MAX_MERGE_SESSIONS)
                /\ ~last'.threw]_vars
    /\ [][(last'.op = "addToMerge")
             => /\ last'.warned <=>
                      (Cardinality(DOMAIN audioStreams \cup {last'.sess})
                          > MAX_MERGE_SESSIONS)
                /\ ~last'.threw]_vars

\* C18: unmerge(sessions) removes every listed session from the merge,
\* holds every session but the last of the list when its removal settles,
\* clears mergeDestination only after all the removals have settled, and
\* when a removal fails it leaves the destination and rejects the promise
\* it returned: it does not throw.
C18_Unmerge ==
    /\ [][(last'.op = "unmerge")
             => /\ ~last'.threw
                /\ Members(last'.list) \cap DOMAIN audioStreams' = {}
                /\ \A q \in promises' :
                       (q.group = last'.list)
                           => (q.flag <=> (q.sess # last'.list[Len(last'.list)]))]_vars
    /\ [][(last'.op = "offerUnbound")
             => \A p \in promises \ promises' :
                    (p.kind = "unbind" /\ p.sess = last'.sess)
                        => (p.flag <=> (last'.calls = <<"hold">>))]_vars
    /\ [][(mergeDestination # "null" /\ mergeDestination' = "null")
             => /\ last'.outcome = "resolved"
                /\ \A p \in promises \ promises' :
                       (p.group # << >>) => ~(\E q \in promises' : q.group = p.group)]_vars
    /\ [][(last'.outcome = "rejected" \/ (last'.op = "unmerge" /\ last'.threw))
             => mergeDestination' = mergeDestination]_vars

(***************************************************************************)
(* Controls of a call                                                      *)
(***************************************************************************)

CameraOps == {"toggleCameraOn", "toggleCameraOff"}

\* C19: toggleCameraOn(session) enables every video track the session sends
\* and toggleCameraOff(session) disables them; neither issues a call on the
\* session, leaves a continuation or a timer, or changes anything else of
\* the session, its audio tracks included; on a session without a
\* description handler both throw and change nothing.
C19_CameraToggles ==
    [][(last'.op \in CameraOps)
         => LET s == sessions[last'.sess]
                s2 == sessions'[last'.sess]
            IN  /\ last'.threw <=> ~s.sdh
                /\ (s.sdh /\ s.video) => (s2.cameraOn <=> (last'.op = "toggleCameraOn"))
                /\ (~s.sdh \/ ~s.video) => s2.cameraOn = s.cameraOn
                /\ s2 = [s EXCEPT !.cameraOn = s2.cameraOn]
                /\ last'.calls = << >>
                /\ promises' = promises
                /\ delayed' = delayed]_vars

\* A session that sends video had its camera turned off while its audio was
\* muted, and the audio is still muted.
C19_Witness ==
    /\ last.op = "toggleCameraOff"
    /\ ~last.threw
    /\ sessions[last.sess].video
    /\ ~sessions[last.sess].cameraOn
    /\ sessions[last.sess].muted

\* C19 as stated: toggleCameraOn(session) disables every video track the
\* session sends and toggleCameraOff(session) enables them, without
\* renegotiation and without touching the audio tracks.
C19_CameraTogglesInverted ==
    [][(last'.op \in CameraOps /\ sessions[last'.sess].sdh /\ sessions[last'.sess].video)
         => /\ sessions'[last'.sess].cameraOn <=> (last'.op = "toggleCameraOff")
            /\ sessions'[last'.sess].muted = sessions[last'.sess].muted
            /\ last'.calls = << >>
            /\ promises' = promises]_vars

\* C20: transfer(session, target) mutes the session and issues hold before
\* it returns, and nothing else; refer is issued only by the callback of
\* the timer of TRANSFER_DELAY_MS that a transfer set after its hold, as
\* the first call of that callback, once; hangup runs in that callback
\* after refer, and is skipped only when refer raised.
C20_TransferOrder ==
    /\ [][(last'.op = "transfer")
             => /\ last'.calls = <<"hold">>
                /\ sessions[last'.sess].sdh => sessions'[last'.sess].muted
                /\ delayed' = IF last'.threw
                              THEN delayed
                              ELSE Append(delayed, [sess |-> last'.sess,
                                                    ms |-> TRANSFER_DELAY_MS])]_vars
    /\ [][(delayed' # delayed) => last'.op \in {"transfer", "transferTimer"}]_vars
    /\ [][(\E k \in DOMAIN last'.calls : last'.calls[k] = "refer")
             => last'.op = "transferTimer"]_vars
    /\ [][(last'.op = "transferTimer")
             => /\ delayed # << >>
                /\ Head(delayed) = [sess |-> last'.sess, ms |-> TRANSFER_DELAY_MS]
                /\ delayed' = Tail(delayed)
                /\ last'.calls # << >>
                /\ \A k \in DOMAIN last'.calls : (last'.calls[k] = "refer") <=> (k = 1)
                /\ (last'.outcome = "hangup") <=> ~last'.threw
                /\ last'.threw => (last'.calls = <<"refer">> /\ last'.refused)]_vars

\* The timer of a transfer fired: refer was issued, then hangup ended the
\* call with bye.
C20_Witness ==
    /\ last.op = "transferTimer"
    /\ last.calls = <<"refer", "bye">>
    /\ last.outcome = "hangup"
    /\ sessions[last.sess].muted
    /\ sessions[last.sess].localHold
    /\ sessions[last.sess].status = "TERMINATED"

\* C21: atxfer(session) issues hold on the session and nothing else;
\* complete(newSession) issues unhold on it and sets the timer of
\* TRANSFER_DELAY_MS, whose callback issues refer first and once and then
\* runs hangup, skipped only when refer raised; cancel(newSession), when
\* unhold is not refused, leaves the original session not on hold, with
\* its audio unmuted and in the status it had.
C21_AttendedTransfer ==
    /\ [][(last'.op = "atxfer")
             => /\ last'.calls = <<"hold">>
                /\ ~last'.threw => /\ sessions'[last'.sess].localHold
                                   /\ sessions[last'.sess].sdh => sessions'[last'.sess].muted
                /\ delayed' = delayed]_vars
    /\ [][(last'.op = "atxferComplete")
             => /\ last'.calls = <<"unhold">>
                /\ ~last'.threw => /\ ~sessions'[last'.sess].localHold
                                   /\ ~sessions'[last'.sess].muted
                                   /\ Len(delayed') = Len(delayed) + 1
                                   /\ delayed'[Len(delayed')].sess = last'.sess
                                   /\ delayed'[Len(delayed')].ms = TRANSFER_DELAY_MS
                /\ last'.threw => delayed' = delayed
                /\ sessions'[last'.sess].status = sessions[last'.sess].status]_vars
    /\ [][(last'.op = "atxferTimer")
             => /\ delayed # << >>
                /\ Head(delayed).sess = last'.sess
                /\ delayed' = Tail(delayed)
                /\ last'.calls # << >>
                /\ \A k \in DOMAIN last'.calls : (last'.calls[k] = "refer") <=> (k = 1)
                /\ (last'.outcome = "hangup") <=> ~last'.threw
                /\ last'.threw => (last'.calls = <<"refer">> /\ last'.refused)]_vars
    /\ [][(last'.op = "atxferCancel")
             => /\ last'.calls # << >>
                /\ last'.calls[Len(last'.calls)] = "unhold"
                /\ ~last'.threw => /\ ~sessions'[last'.sess].localHold
                                   /\ ~sessions'[last'.sess].muted
                /\ sessions'[last'.sess].status = sessions[last'.sess].status
                /\ delayed' = delayed]_vars

\* cancel ended the new call with bye and took the original call, still
\* confirmed, off hold.
C21_Witness ==
    /\ last.op = "atxferCancel"
    /\ last.calls = <<"bye", "unhold">>
    /\ ~last.threw
    /\ sessions[last.sess].status = "CONFIRMED"
    /\ sessions[last.sess].attended
    /\ \E n \in DOMAIN sessions : sessions[n].status = "TERMINATED"

(***************************************************************************)
(* Closing the facade                                                      *)
(***************************************************************************)

\* C22: when close() returns, every session the agent tracked has been hung
\* up (it ended, or its cancellation was asked) and is no longer tracked,
\* no audio element is left, the agent's transport is disconnecting or
\* closed and the agent has no listener of the facade; close does not
\* throw.
C22_CloseCancelsAll ==
    [][(last'.op = "close")
         => /\ ~last'.threw
            /\ audioElements' = {}
            /\ Tracked(sessions') = {}
            /\ \A i \in Tracked(sessions) :
                   \/ last'.refused
                   \/ sessions'[i].status \in {"TERMINATED", "CANCELED"}
                   \/ sessions'[i].isCanceled
            /\ (userAgent # 0) => /\ agents'[userAgent].tr # "open"
                                  /\ ~agents'[userAgent].ual]_vars

(***************************************************************************)
(* Video sessions                                                          *)
(***************************************************************************)

\* C23: while a session has an entry in videoSessions, its remotes only
\* grow, by one stream at the end, and every remote-media setup of the
\* session (on 'accepted', on 'addTrack') that completes appends exactly
\* one stream; the setup creates the entry when there is none; and
\* getRemoteVideoStreamsForSession returns the list of the entry, or the
\* empty list for an id without entry.
C23_RemotesAppendOnly ==
    /\ [][\A i \in DOMAIN videoSessions \cap DOMAIN videoSessions' :
             \/ videoSessions'[i].remotes = videoSessions[i].remotes
             \/ videoSessions'[i].remotes =
                    Append(videoSessions[i].remotes, Len(videoSessions[i].remotes) + 1)]_vars
    /\ [][(last'.op \in {"accepted", "addTrack"} /\ ~last'.threw
            /\ last'.sess \in DOMAIN videoSessions \cup DOMAIN videoSessions')
             => /\ last'.sess \in DOMAIN videoSessions'
                /\ Len(videoSessions'[last'.sess].remotes) =
                       1 + (IF last'.sess \in DOMAIN videoSessions
                            THEN Len(videoSessions[last'.sess].remotes) ELSE 0)]_vars
    /\ [](\A id \in ConferenceIds \cup {"none"} :
             GetRemoteVideoStreamsForSession(Calls, id) =
                 IF id \in DOMAIN videoSessions THEN videoSessions[id].remotes ELSE << >>)

DeviceOps == {"changeAudioInputDevice", "changeVideoInputDevice"}

\* C25: a device change leaves the pending retry timers pending, and the
\* timer that fires next, pending since before the device change, leaves
\* the agent the device change installed in place as this.userAgent, with
\* its listeners.
C25_TimerKeepsOldAgent ==
    /\ [][(last'.op \in DeviceOps /\ ~last'.threw) => timers' = timers]_vars
    /\ [][(last.op \in DeviceOps /\ ~last.threw /\ last'.op = "retry")
             => /\ userAgent' = userAgent
                /\ agents'[userAgent].ual]_vars

\* C26: a session's 'addTrack' is handled as a remote-media update only
\* once the session's 'accepted' handler has run to its end, and that
\* handler reaches its end (where it binds the 'addTrack' and 'addStream'
\* listeners and emits 'accepted' to the subscribers) only with the local
\* and the remote media attached: the audio element in a browser with
\* audio, the local stream and one remote stream with video in a browser.
C26_AcceptedBeforeRenegotiation ==
    /\ [][(last'.op = "addTrack" /\ ~sessions[last'.sess].accepted)
             => /\ videoSessions' = videoSessions
                /\ audioElements' = audioElements
                /\ ~sessions'[last'.sess].accepted]_vars
    /\ [][\A i \in DOMAIN sessions' :
             (sessions'[i].accepted /\ (i \in DOMAIN sessions => ~sessions[i].accepted))
                 => /\ last'.op = "accepted" /\ last'.sess = i /\ ~last'.threw
                    /\ (platform.web /\ platform.audio) => i \in audioElements'
                    /\ (platform.web /\ videoEnabled')
                           => /\ i \in DOMAIN videoSessions'
                              /\ videoSessions'[i].local
                              /\ Len(videoSessions'[i].remotes) = 1]_vars

\* A renegotiation of an accepted video call was handled: its second
\* remote stream is attached after the first and the local stream.
C26_Witness ==
    /\ last.op = "addTrack"
    /\ ~last.threw
    /\ sessions[last.sess].accepted
    /\ last.sess \in DOMAIN videoSessions
    /\ videoSessions[last.sess].local
    /\ Len(videoSessions[last.sess].remotes) = 2

\* C27: this.registered becomes true only by the 'registered' event of the
\* current agent; while it stays true and no retry loop is running, the
\* current agent is not replaced; and an agent's event ('disconnected',
\* 'unregistered') that sets it to false is an event of the current agent.
C27_RegisteredFlagCoherent ==
    /\ [][(~registered /\ registered')
             => (last'.op = "registered" /\ last'.agent = userAgent')]_vars
    /\ [][(registered /\ registered' /\ ~registering') => userAgent' = userAgent]_vars
    /\ [][(registered /\ ~registered' /\ last'.op \in {"disconnected", "unregistered"})
             => last'.agent = userAgent]_vars

\* C28: this.registering is true only while a retry timer is pending, also
\* when reinit was called before the configuration was built.
C28_RegisteringNotStuck ==
    registering => timers # << >>

\* close() has returned and the application has asked for nothing since
\* that replaced the agent: this.userAgent is an agent stop() was called
\* on.
Closed ==
    userAgent # 0 /\ agents[userAgent].stopped /\ agents[userAgent].gone = "no"

AppOps == {"reinit", "register", "unregister", "close"} \cup DeviceOps

\* C29: when close() returns no retry timer is pending; and once closed,
\* whatever the application did not ask for sets no timer, starts no retry
\* loop, constructs no agent and sends no register request.
C29_StaysClosed ==
    /\ [][(last'.op = "close") => timers' = << >>]_vars
    /\ [][(Closed /\ last'.op \notin AppOps)
             => /\ Len(timers') <= Len(timers)
                /\ registering' => registering
                /\ Len(agents') = Len(agents)
                /\ userAgent' = userAgent
                /\ ua'.reg = "sent" => ua.reg = "sent"]_vars

\* C30: a session that has ended, by hangup or by the far end, has no entry
\* in videoSessions and no audio element.
C30_NoEntryOutlivesSession ==
    \A i \in DOMAIN sessions :
        (sessions[i].status = "TERMINATED")
            => (i \notin DOMAIN videoSessions /\ i \notin audioElements)

(***************************************************************************)
(* Tearing down a merged session                                           *)
(***************************************************************************)

\* C31: hangup(session) and the 'terminated' listener, when they take a
\* session out of the merge, issue no hold on it and leave no continuation
\* that will: no pending removal of the session that holds it once its
\* offer is made.
C31_NoHoldOnTeardown ==
    [][(last'.op \in {"hangup", "terminated"})
         => /\ \A k \in DOMAIN last'.calls : last'.calls[k] # "hold"
            /\ \A p \in promises' \ promises :
                   ~(p.kind = "unbind" /\ p.sess = last'.sess /\ p.flag)]_vars

====
